---- MODULE Spec2Model ----
(***************************************************************************)
(* Carrier adapters of the repository:                                     *)
(*   - Purolator shipping documents request builder and its serializer     *)
(*     (providers/purolator/shipment/documents.py)                         *)
(*   - Australia Post rate request builder and rate response parser        *)
(*     (carriers/aups/shipping/shipping_price.py)                          *)
(*                                                                         *)
(* Conventions.  A Python value that may be None is modelled as a tuple of *)
(* length at most one: None is << >>, a present value v is << v >>.        *)
(* Strings are TLA+ strings; money amounts are integers counted in cents   *)
(* (10.5 AUD is 1050).                                                     *)
(***************************************************************************)
EXTENDS Integers, Sequences, FiniteSets, TLC

VARIABLES
    docArgs,      \* (pin, payload, settings) of a get_shipping_documents_request call
    envelope,     \* the Envelope held by the returned Serializable (None before the call)
    exported,     \* the strings returned by the successive serializations of it
    ratePayload,  \* the RateRequest given to shipping_price_request
    rateResult,   \* outcome of shipping_price_request (None before the call)
    response,     \* the response mapping given to parse_shipping_price_response
    parsed,       \* its (quotes, messages) result (None before the call)
    rate,         \* the response Shipment given to _extract_quote
    quote         \* the RateDetails it returns (None before the call)

vars == << docArgs, envelope, exported, ratePayload, rateResult,
           response, parsed, rate, quote >>

docVars   == << docArgs, envelope, exported >>
rateVars  == << ratePayload, rateResult >>
parseVars == << response, parsed >>
quoteVars == << rate, quote >>

\* --------------------------------------------------------------- Python values

None == << >>
Some(v) == << v >>

\* Python truthiness of an optional string: None and "" are falsy.
Truthy(o) == o # None /\ o[1] # ""

\* `a or b` on optional strings
Or(a, b) == IF Truthy(a) THEN a ELSE b

StartsWith(s, p) == Len(s) >= Len(p) /\ SubSeq(s, 1, Len(p)) = p

EndsWith(s, p) == Len(s) >= Len(p) /\ SubSeq(s, Len(s) - Len(p) + 1, Len(s)) = p

UpperChar(c) ==
    CASE c = "p" -> "P"
      [] c = "d" -> "D"
      [] c = "f" -> "F"
      [] c = "z" -> "Z"
      [] c = "l" -> "L"
      [] c = "n" -> "N"
      [] c = "g" -> "G"
      [] OTHER -> c

RECURSIVE Upper(_)
Upper(s) ==
    IF s = "" THEN ""
    ELSE UpperChar(SubSeq(s, 1, 1)) \o Upper(SubSeq(s, 2, Len(s)))

\* ------------------------------------------------- Purolator: documents request

\* Number of times the caller serializes the same Serializable.
MaxSerialize == 2

\* SF.concat_str(*args, separator, join=True): the non-empty parts joined by
\* the separator.
RECURSIVE JoinStr(_, _)
JoinStr(parts, separator) ==
    IF parts = << >> THEN ""
    ELSE IF Len(parts) = 1 THEN parts[1]
    ELSE parts[1] \o separator \o JoinStr(Tail(parts), separator)

concat_str(args, separator) ==
    JoinStr(SelectSeq(args, LAMBDA s : s # ""), separator)

\* PrintType: the carrier's print types, by enum name.
PrintType == {"PDF", "ZPL"}

\* PrintType.map(key).name: the name of the member the key maps to
\* (letter case ignored), None when the key maps to no member.
PrintType_map_name(key) ==
    IF Upper(key) \in PrintType THEN Some(Upper(key)) ELSE None

\* Variant: the comparison inverted.
is_international_inverted(payload) ==
    payload.shipper.country_code = payload.recipient.country_code

is_international(payload) ==
    payload.shipper.country_code # payload.recipient.country_code

label_type(payload) == PrintType_map_name(Or(payload.label_type, Some("PDF"))[1])

\* Variant: every label type other than PDF takes the thermal suffix.
document_type_non_pdf(payload) ==
    concat_str(
        << (IF is_international(payload) THEN "International" ELSE "Domestic"),
           "BillOfLading",
           (IF label_type(payload) # Some("PDF") THEN "Thermal" ELSE "") >>,
        "")

document_type(payload) ==
    concat_str(
        << (IF is_international(payload) THEN "International" ELSE "Domestic"),
           "BillOfLading",
           (IF label_type(payload) = Some("ZPL") THEN "Thermal" ELSE "") >>,
        "")

\* create_envelope(header_content, body_content): a Header and a Body each
\* holding the one content object; the prefixes it leaves on the nodes are
\* whatever the helper's defaults are (prefix0).
create_envelope(header_content, body_content, prefix0) ==
    [ ns_prefix_ |-> prefix0,
      Header |-> [ ns_prefix_ |-> prefix0,
                   anytypeobjs_ |-> << [ns_prefix_ |-> None] @@ header_content >> ],
      Body   |-> [ ns_prefix_ |-> prefix0,
                   anytypeobjs_ |-> << [ns_prefix_ |-> None] @@ body_content >> ] ]

get_shipping_documents_request(pin, payload, settings, prefix0) ==
    create_envelope(
        [ type |-> "RequestContext",
          Version |-> "1.3",
          Language |-> settings.language,
          GroupID |-> "",
          RequestReference |-> payload.reference,
          UserToken |-> settings.user_token ],
        [ type |-> "GetDocumentsRequest",
          OutputType |-> label_type(payload),
          Synchronous |-> TRUE,
          DocumentCriterium |->
              [ DocumentCriteria |->
                  << [ PIN |-> [Value |-> pin],
                       DocumentTypes |->
                           [DocumentType |-> << document_type(payload) >>] ] >> ] ],
        prefix0)

\* apply_namespaceprefix(item, prefix): the item carries the prefix afterwards.
apply_namespaceprefix(item, prefix) == [item EXCEPT !.ns_prefix_ = Some(prefix)]

namespacedef_ ==
    "xmlns:soap=\"http://schemas.xmlsoap.org/soap/envelope/\" xmlns:v1=\"http://purolator.com/pws/datatypes/v1\""

\* Variant: the Header's own prefix is left as created.
SerializerPrefixes_no_header(env) ==
    LET e1 == [env EXCEPT !.ns_prefix_ = Some("soap")]
        e2 == [e1 EXCEPT !.Body.ns_prefix_ = e1.ns_prefix_]
        e4 == [e2 EXCEPT !.Body.anytypeobjs_[1] =
                   apply_namespaceprefix(e2.Body.anytypeobjs_[1], "v1")]
    IN  [e4 EXCEPT !.Header.anytypeobjs_[1] =
                   apply_namespaceprefix(e4.Header.anytypeobjs_[1], "v1")]

\* The in-place mutation _request_serializer makes before it exports.
SerializerPrefixes(env) ==
    LET e1 == [env EXCEPT !.ns_prefix_ = Some("soap")]
        e2 == [e1 EXCEPT !.Body.ns_prefix_ = e1.ns_prefix_]
        e3 == [e2 EXCEPT !.Header.ns_prefix_ = e2.ns_prefix_]
        e4 == [e3 EXCEPT !.Body.anytypeobjs_[1] =
                   apply_namespaceprefix(e3.Body.anytypeobjs_[1], "v1")]
    IN  [e4 EXCEPT !.Header.anytypeobjs_[1] =
                   apply_namespaceprefix(e4.Header.anytypeobjs_[1], "v1")]

\* XP.export(envelope, namespacedef_): the rendering is determined by the
\* tree (content and prefixes) and the namespace definitions.
XP_export(env, nsdef) == [namespacedef_ |-> nsdef, xml |-> env]

\* Inputs of the documents request.
DocCountries == {None, Some("CA"), Some("US")}
LabelTypes == {None, Some(""), Some("PDF"), Some("ZPL"), Some("zpl"), Some("Zpl"), Some("PNG")}
Pins == {"pin-1", "pin-2"}
DefaultPrefixes == {None, Some("tns")}

DocPayloads ==
    [ shipper : [country_code : DocCountries],
      recipient : [country_code : DocCountries],
      label_type : LabelTypes,
      reference : {Some("ref-1")} ]

DocSettings == [language : {"en"}, user_token : {"token"}]

\* The caller invokes get_shipping_documents_request(pin, payload, settings).
GetShippingDocumentsRequest ==
    /\ envelope = None
    /\ \E prefix0 \in DefaultPrefixes :
          envelope' = Some(get_shipping_documents_request(
                               docArgs.pin, docArgs.payload, docArgs.settings, prefix0))
    /\ UNCHANGED << docArgs, exported, rateVars, parseVars, quoteVars >>

\* The caller serializes the Serializable: _request_serializer(envelope).
RequestSerializer ==
    /\ envelope # None
    /\ Len(exported) < MaxSerialize
    /\ envelope' = Some(SerializerPrefixes(envelope[1]))
    /\ exported' = Append(exported, XP_export(envelope'[1], namespacedef_))
    /\ UNCHANGED << docArgs, rateVars, parseVars, quoteVars >>

\* ------------------------------------------------ Australia Post: rate request

\* Country.AU.name
Country_AU == "AU"

\* PackagingType: native packaging codes by normalized packaging-type name.
PackagingType == [carton |-> "CTN", pallet |-> "PAL", satchel |-> "SAT"]

\* next((t.value for t in PackagingType if t.name == name), None)
packaging_type(payload) ==
    LET name == payload.parcel.packaging_type
    IN  IF name # None /\ name[1] \in DOMAIN PackagingType
        THEN Some(PackagingType[name[1]])
        ELSE None

\* Variant: the country code tested with `is not None` instead of truthiness.
OriginNotServiced_not_none(payload) ==
    /\ payload.shipper.country_code # None
    /\ payload.shipper.country_code # Some(Country_AU)

\* The condition of the `if` that raises OriginNotServicedError.
OriginNotServiced(payload) ==
    /\ Truthy(payload.shipper.country_code)
    /\ payload.shipper.country_code # Some(Country_AU)

OriginNotServicedError(payload) ==
    [ type |-> "OriginNotServicedError",
      args |-> << payload.shipper.country_code[1], "Australia post" >> ]

\* Variant: the sender's address type given a value the payload does not carry.
From_typed(payload) ==
    [ name |-> payload.shipper.person_name,
      type |-> Some("MERCHANT_LOCATION"),
      lines |-> << payload.shipper.address_line1, payload.shipper.address_line2 >>,
      suburb |-> payload.shipper.suburb,
      state |-> payload.shipper.state_code,
      postcode |-> payload.shipper.postal_code,
      country |-> payload.shipper.country_code,
      phone |-> payload.shipper.phone_number,
      email |-> payload.shipper.email ]

From(payload) ==
    [ name |-> payload.shipper.person_name,
      type |-> None,
      lines |-> << payload.shipper.address_line1, payload.shipper.address_line2 >>,
      suburb |-> payload.shipper.suburb,
      state |-> payload.shipper.state_code,
      postcode |-> payload.shipper.postal_code,
      country |-> payload.shipper.country_code,
      phone |-> payload.shipper.phone_number,
      email |-> payload.shipper.email ]

To(payload) ==
    [ name |-> payload.recipient.person_name,
      business_name |-> payload.recipient.company_name,
      type |-> None,
      lines |-> << payload.recipient.address_line1, payload.recipient.address_line2 >>,
      suburb |-> payload.recipient.suburb,
      state |-> payload.recipient.state_code,
      postcode |-> payload.recipient.postal_code,
      country |-> payload.recipient.country_code,
      phone |-> payload.recipient.phone_number,
      email |-> payload.recipient.email,
      delivery_instructions |-> None ]

Item(payload) ==
    [ item_reference |-> payload.parcel.reference,
      product_id |-> payload.parcel.id,
      item_description |-> payload.parcel.description,
      length |-> payload.parcel.length,
      width |-> payload.parcel.width,
      height |-> payload.parcel.height,
      cubic_volume |-> None,
      weight |-> payload.parcel.weight,
      contains_dangerous_goods |-> None,
      transportable_by_air |-> None,
      dangerous_goods_declaration |-> None,
      authority_to_leave |-> Some(FALSE),
      reason_for_return |-> None,
      allow_partial_delivery |-> Some(TRUE),
      packaging_type |-> packaging_type(payload),
      atl_number |-> None,
      features |-> None,
      tracking_details |-> None,
      commercial_value |-> None,
      export_declaration_number |-> None,
      import_reference_number |-> None,
      classification_type |-> None,
      description_of_other |-> None,
      international_parcel_sender_name |-> None,
      non_delivery_action |-> None,
      certificate_number |-> None,
      licence_number |-> None,
      invoice_number |-> None,
      comments |-> None,
      tariff_concession |-> None,
      free_trade_applicable |-> None ]

email_tracking_enabled(payload) == payload.shipper.email # None

Shipment(payload) ==
    [ shipment_reference |-> payload.parcel.reference,
      sender_references |-> None,
      goods_descriptions |-> None,
      despatch_date |-> None,
      consolidate |-> None,
      email_tracking_enabled |-> Some(email_tracking_enabled(payload)),
      from_ |-> From(payload),
      to |-> To(payload),
      dangerous_goods |-> None,
      movement_type |-> None,
      features |-> None,
      authorisation_number |-> None,
      items |-> << Item(payload) >> ]

ShippingPriceRequest(payload) == [shipments |-> << Shipment(payload) >>]

\* Serializable(request, _request_serializer)
Serializable(request) == [value |-> request, serializer |-> "_request_serializer"]

\* shipping_price_request(payload): what it raises and what it returns.
shipping_price_request(payload) ==
    IF OriginNotServiced(payload)
    THEN [raised |-> Some(OriginNotServicedError(payload)), returned |-> None]
    ELSE [raised |-> None,
          returned |-> Some(Serializable(ShippingPriceRequest(payload)))]

\* Inputs of the rate request.
ShipperCountries == {None, Some(""), Some("AU"), Some("CA"), Some("au")}
Emails == {None, Some(""), Some("sender@example.com")}

AddressDetails ==
    { [ person_name |-> None, address_line1 |-> None, address_line2 |-> None,
        suburb |-> None, state_code |-> None, postal_code |-> None,
        phone_number |-> None ],
      [ person_name |-> Some("Jane"), address_line1 |-> Some("1 Main St"),
        address_line2 |-> Some("Unit 2"), suburb |-> Some("Geelong"),
        state_code |-> Some("VIC"), postal_code |-> Some("3220"),
        phone_number |-> Some("0356567567") ] }

Shippers ==
    { a @@ [country_code |-> c, email |-> e] :
        a \in AddressDetails, c \in ShipperCountries, e \in Emails }

Recipients ==
    { a @@ [country_code |-> c, email |-> e, company_name |-> n] :
        a \in AddressDetails, c \in {Some("AU")}, e \in {None, Some("to@example.com")},
        n \in {None} }

Parcels ==
    { [ reference |-> r, id |-> None, description |-> None,
        length |-> d, width |-> d, height |-> d, weight |-> d,
        packaging_type |-> p ] :
        r \in {None, Some("parcel-1")}, d \in {None, Some(10)},
        p \in {None, Some("carton"), Some("crate")} }

RateRequests == [shipper : Shippers, recipient : Recipients, parcel : Parcels]

\* The caller invokes shipping_price_request(payload).
ShippingPriceRequestCall ==
    /\ ratePayload # None
    /\ rateResult = None
    /\ rateResult' = Some(shipping_price_request(ratePayload[1]))
    /\ UNCHANGED << ratePayload, docVars, parseVars, quoteVars >>

\* --------------------------------------------- Australia Post: rate response

\* Bounds on the response mapping.
MaxShipments == 2
MaxErrors == 2

\* Currency.AUD.name
Currency_AUD == "AUD"

Settings == [carrier |-> "aups", carrier_name |-> "AustraliaPost"]

\* ShipmentSummary(): every field absent.
ShipmentSummary ==
    [ fuel_surcharge |-> None, security_surcharge |-> None,
      transit_cover |-> None, freight_charge |-> None,
      total_cost_ex_gst |-> None, total_gst |-> None,
      total_cost |-> None, discount |-> None ]

\* decimal(value): the exact decimal value, None for None.
decimal(value) == IF value = None THEN None ELSE Some(value[1])

ChargeDetails(name, amount, currency) ==
    [name |-> name, amount |-> amount, currency |-> currency]

\* The surcharges dict, in insertion order.
surcharges(summary) ==
    << << "Fuel", summary.fuel_surcharge >>,
       << "Security", summary.security_surcharge >>,
       << "Transit Cover", summary.transit_cover >>,
       << "Freight Charge", summary.freight_charge >> >>

\* Variant: the surcharges filtered by truthiness, which drops a zero amount.
extra_charges_truthy(summary) ==
    LET present == SelectSeq(surcharges(summary),
                             LAMBDA item : item[2] # None /\ item[2][1] # 0)
    IN  [ i \in 1..Len(present) |->
            ChargeDetails(present[i][1], decimal(present[i][2]), Currency_AUD) ]

extra_charges(summary) ==
    LET present == SelectSeq(surcharges(summary), LAMBDA item : item[2] # None)
    IN  [ i \in 1..Len(present) |->
            ChargeDetails(present[i][1], decimal(present[i][2]), Currency_AUD) ]

\* Variant: the base charge read from the total cost.
_extract_quote_total_as_base(rate_, settings) ==
    LET summary == IF rate_.shipment_summary # None
                   THEN rate_.shipment_summary[1]
                   ELSE ShipmentSummary
    IN  [ carrier |-> settings.carrier,
          carrier_name |-> settings.carrier_name,
          base_charge |-> decimal(summary.total_cost),
          duties_and_taxes |-> decimal(summary.total_gst),
          total_charge |-> decimal(summary.total_cost),
          currency |-> Currency_AUD,
          discount |-> decimal(summary.discount),
          extra_charges |-> extra_charges(summary) ]

_extract_quote(rate_, settings) ==
    LET summary == IF rate_.shipment_summary # None
                   THEN rate_.shipment_summary[1]
                   ELSE ShipmentSummary
    IN  [ carrier |-> settings.carrier,
          carrier_name |-> settings.carrier_name,
          base_charge |-> decimal(summary.total_cost_ex_gst),
          duties_and_taxes |-> decimal(summary.total_gst),
          total_charge |-> decimal(summary.total_cost),
          currency |-> Currency_AUD,
          discount |-> decimal(summary.discount),
          extra_charges |-> extra_charges(summary) ]

\* ShippingPriceResponse(**response): the typed response; a key the mapping
\* lacks takes the type's default, an empty list.
ShippingPriceResponse(resp) ==
    [ shipments |-> IF resp.shipments = None THEN << >> ELSE resp.shipments[1],
      errors |-> IF resp.errors = None THEN << >> ELSE resp.errors[1] ]

\* response.get("errors", [])
get_errors(resp) == IF resp.errors = None THEN << >> ELSE resp.errors[1]

\* parse_error_response({"errors": errors}, settings): one Message per error.
parse_error_response(errors_response, settings) ==
    [ i \in 1..Len(errors_response.errors) |->
        [ carrier |-> settings.carrier,
          carrier_name |-> settings.carrier_name,
          code |-> errors_response.errors[i].code,
          message |-> errors_response.errors[i].message ] ]

\* Variant: the errors are parsed only when no quote was produced.
parse_shipping_price_response_errors_or_quotes(resp, settings) ==
    LET price_response == ShippingPriceResponse(resp)
        quotes == [ i \in 1..Len(price_response.shipments) |->
                      _extract_quote(price_response.shipments[i], settings) ]
    IN  << quotes,
           IF quotes = << >>
           THEN parse_error_response([errors |-> get_errors(resp)], settings)
           ELSE << >> >>

\* Variant: every quote extracted from the first shipment.
parse_shipping_price_response_first_only(resp, settings) ==
    LET price_response == ShippingPriceResponse(resp)
    IN  << [ i \in 1..Len(price_response.shipments) |->
               _extract_quote(price_response.shipments[1], settings) ],
           parse_error_response([errors |-> get_errors(resp)], settings) >>

parse_shipping_price_response(resp, settings) ==
    LET price_response == ShippingPriceResponse(resp)
    IN  << [ i \in 1..Len(price_response.shipments) |->
               _extract_quote(price_response.shipments[i], settings) ],
           parse_error_response([errors |-> get_errors(resp)], settings) >>

\* Inputs of _extract_quote: surcharges and totals, in cents.
SurchargeAmounts == {None, Some(0), Some(200), Some(1050)}

Summaries ==
    [ fuel_surcharge : SurchargeAmounts, security_surcharge : SurchargeAmounts,
      transit_cover : SurchargeAmounts, freight_charge : SurchargeAmounts,
      total_cost_ex_gst : {None, Some(10000)}, total_gst : {None, Some(1000)},
      total_cost : {None, Some(11000)}, discount : {None, Some(0)} ]

ResponseShipments ==
    [shipment_id : {"S1"}, shipment_summary : {None} \cup {Some(x) : x \in Summaries}]

\* The summary of the worked example: fuel 10.5, transit cover 2.0, totals
\* 100 / 10 / 110, discount 0.
ExampleSummary ==
    [ fuel_surcharge |-> Some(1050), security_surcharge |-> None,
      transit_cover |-> Some(200), freight_charge |-> None,
      total_cost_ex_gst |-> Some(10000), total_gst |-> Some(1000),
      total_cost |-> Some(11000), discount |-> Some(0) ]

\* Inputs of parse_shipping_price_response.
ParseShipments ==
    { [shipment_id |-> "S1", shipment_summary |-> None],
      [shipment_id |-> "S2", shipment_summary |-> Some(ExampleSummary)],
      [shipment_id |-> "S3", shipment_summary |->
          Some([ShipmentSummary EXCEPT !.freight_charge = Some(0),
                                       !.total_cost = Some(11000)])] }

ResponseErrors ==
    { [code |-> "44003", message |-> "The product is not available"],
      [code |-> "42002", message |-> "Invalid postcode"] }

SeqsUpTo(S, n) == UNION { [1..k -> S] : k \in 0..n }

Responses ==
    [ shipments : {None} \cup {Some(q) : q \in SeqsUpTo(ParseShipments, MaxShipments)},
      errors : {None} \cup {Some(q) : q \in SeqsUpTo(ResponseErrors, MaxErrors)} ]

\* The caller invokes _extract_quote(rate, settings).
ExtractQuote ==
    /\ rate # None
    /\ quote = None
    /\ quote' = Some(_extract_quote(rate[1], Settings))
    /\ UNCHANGED << rate, docVars, rateVars, parseVars >>

\* The caller invokes parse_shipping_price_response(response, settings).
ParseShippingPriceResponse ==
    /\ response # None
    /\ parsed = None
    /\ parsed' = Some(parse_shipping_price_response(response[1], Settings))
    /\ UNCHANGED << response, docVars, rateVars, quoteVars >>

\* ------------------------------------------------------------ specifications

IdleDocs == docArgs = None /\ envelope = None /\ exported = << >>
IdleRate == ratePayload = None /\ rateResult = None
IdleParse == response = None /\ parsed = None
IdleQuote == rate = None /\ quote = None

InitDocs ==
    /\ docArgs \in [pin : Pins, payload : DocPayloads, settings : DocSettings]
    /\ envelope = None
    /\ exported = << >>
    /\ IdleRate /\ IdleParse /\ IdleQuote

NextDocs == GetShippingDocumentsRequest \/ RequestSerializer

SpecDocs == InitDocs /\ [][NextDocs]_vars

InitRate ==
    /\ ratePayload \in {Some(p) : p \in RateRequests}
    /\ rateResult = None
    /\ IdleDocs /\ IdleParse /\ IdleQuote

NextRate == ShippingPriceRequestCall

SpecRate == InitRate /\ [][NextRate]_vars

InitParse ==
    /\ response \in {Some(r) : r \in Responses}
    /\ parsed = None
    /\ IdleDocs /\ IdleRate /\ IdleQuote

NextParse == ParseShippingPriceResponse

SpecParse == InitParse /\ [][NextParse]_vars

InitQuote ==
    /\ rate \in {Some(r) : r \in ResponseShipments}
    /\ quote = None
    /\ IdleDocs /\ IdleRate /\ IdleParse

NextQuote == ExtractQuote

SpecQuote == InitQuote /\ [][NextQuote]_vars

\* -------------------------------------------------------------- properties

\* The request built by an accepted shipping_price_request call.
BuiltRequest == rateResult[1].returned[1].value

Accepted == rateResult # None /\ rateResult[1].returned # None

\* The single document type string placed in the documents request.
RequestDocumentTypes == envelope[1].Body.anytypeobjs_[1].DocumentCriterium.DocumentCriteria[1].DocumentTypes.DocumentType

\* C1: shipping_price_request raises OriginNotServicedError carrying the
\* shipper's country code exactly when shipper.country_code is set to a value
\* other than "AU"; for "AU", empty or absent it raises nothing and returns a
\* Serializable request; a rejected payload yields no request.
C1_OriginCheck ==
    rateResult # None =>
        LET cc == ratePayload[1].shipper.country_code
            res == rateResult[1]
        IN  IF cc \notin {None, Some(""), Some("AU")}
            THEN /\ res.raised # None
                 /\ res.raised[1].type = "OriginNotServicedError"
                 /\ res.raised[1].args[1] = cc[1]
                 /\ res.returned = None
            ELSE /\ res.raised = None
                 /\ res.returned # None
                 /\ res.returned[1].serializer = "_request_serializer"
                 /\ Len(res.returned[1].value.shipments) = 1

C1_Witness ==
    /\ rateResult # None
    /\ rateResult[1].raised # None
    /\ ratePayload[1].shipper.country_code = Some("au")

\* C2: the single document type of the documents request starts with
\* "Domestic" when shipper and recipient country codes are equal and with
\* "International" when they differ.
C2_DomesticOrInternational ==
    envelope # None =>
        /\ Len(RequestDocumentTypes) = 1
        /\ IF docArgs.payload.shipper.country_code = docArgs.payload.recipient.country_code
           THEN StartsWith(RequestDocumentTypes[1], "Domestic")
           ELSE StartsWith(RequestDocumentTypes[1], "International")

C2_Witness ==
    /\ envelope # None
    /\ docArgs.payload.shipper.country_code = Some("CA")
    /\ docArgs.payload.recipient.country_code = Some("US")
    /\ StartsWith(RequestDocumentTypes[1], "International")

C4_ErrorsAlwaysReturned ==
    parsed # None =>
        LET resp == response[1]
            errors == IF resp.errors = None THEN << >> ELSE resp.errors[1]
            messages == parsed[1][2]
        IN  /\ Len(parsed[1]) = 2
            /\ Len(messages) = Len(errors)
            /\ \A i \in 1..Len(errors) :
                  /\ messages[i].code = errors[i].code
                  /\ messages[i].message = errors[i].message
            /\ (resp.shipments \in {None, Some(<< >>)}) => parsed[1][1] = << >>
            /\ (resp.shipments = Some(<< >>) /\ resp.errors = Some(<< >>))
                  => parsed[1] = << << >>, << >> >>

C4_Witness ==
    /\ parsed # None
    /\ response[1].shipments # None
    /\ Len(parsed[1][1]) = 2
    /\ Len(parsed[1][2]) = 1

\* C5: one RateDetails per entry of the response's shipments, in the order of
\* the shipments, the i-th quote extracted from the i-th shipment only.
C5_OneQuotePerShipment ==
    (parsed # None /\ response[1].shipments # None) =>
        LET shipments == response[1].shipments[1]
            quotes == parsed[1][1]
        IN  /\ Len(quotes) = Len(shipments)
            /\ \A i \in 1..Len(shipments) :
                  quotes[i] = _extract_quote(shipments[i], Settings)

C5_Witness ==
    /\ parsed # None
    /\ response[1].shipments # None
    /\ Len(response[1].shipments[1]) = 2
    /\ response[1].shipments[1][1].shipment_id = "S2"
    /\ response[1].shipments[1][2].shipment_id = "S3"
    /\ parsed[1][1][1] # parsed[1][1][2]

\* The charge entry a present surcharge gives, none for an absent one.
ChargeFor(name, amount) ==
    IF amount = None THEN << >>
    ELSE << [name |-> name, amount |-> amount, currency |-> "AUD"] >>

\* C6: extra_charges holds one entry per surcharge field that is not None and
\* none for a None field, each in AUD with the field's amount, in the order
\* fuel, security, transit cover, freight; a surcharge of 0 is included; the
\* worked example gives exactly ("Fuel", 10.5), ("Transit Cover", 2.0).
C6_ExtraCharges ==
    quote # None =>
        LET summary == IF rate[1].shipment_summary = None
                       THEN ShipmentSummary ELSE rate[1].shipment_summary[1]
        IN  /\ quote[1].extra_charges =
                   ChargeFor("Fuel", summary.fuel_surcharge)
                   \o ChargeFor("Security", summary.security_surcharge)
                   \o ChargeFor("Transit Cover", summary.transit_cover)
                   \o ChargeFor("Freight Charge", summary.freight_charge)
            /\ rate[1].shipment_summary = Some(ExampleSummary) =>
                   quote[1].extra_charges =
                       << [name |-> "Fuel", amount |-> Some(1050), currency |-> "AUD"],
                          [name |-> "Transit Cover", amount |-> Some(200),
                           currency |-> "AUD"] >>

C6_Witness ==
    /\ quote # None
    /\ rate[1].shipment_summary # None
    /\ rate[1].shipment_summary[1].fuel_surcharge = Some(0)
    /\ rate[1].shipment_summary[1].security_surcharge = None
    /\ rate[1].shipment_summary[1].freight_charge = Some(1050)
    /\ Len(quote[1].extra_charges) = 3
    /\ quote[1].extra_charges[1].amount = Some(0)

\* Carrier fields the normalized payload has no counterpart for.
ShipmentUnmapped ==
    { "sender_references", "goods_descriptions", "despatch_date", "consolidate",
      "dangerous_goods", "movement_type", "features", "authorisation_number" }

FromUnmapped == {"type"}

ToUnmapped == {"type", "delivery_instructions"}

ItemFixed == {"authority_to_leave", "allow_partial_delivery"}

ItemUnmapped ==
    { "cubic_volume", "contains_dangerous_goods", "transportable_by_air",
      "dangerous_goods_declaration", "reason_for_return", "atl_number", "features",
      "tracking_details", "commercial_value", "export_declaration_number",
      "import_reference_number", "classification_type", "description_of_other",
      "international_parcel_sender_name", "non_delivery_action",
      "certificate_number", "licence_number", "invoice_number", "comments",
      "tariff_concession", "free_trade_applicable" } \cup ItemFixed

OneShipmentOneItem ==
    /\ Len(BuiltRequest.shipments) = 1
    /\ Len(BuiltRequest.shipments[1].items) = 1

\* C7 as stated: one shipment holding one item, and every field of the
\* shipment, From, To and Item objects without a counterpart in the payload
\* is None.
C7_AllUnmappedAbsent ==
    Accepted =>
        LET shipment == BuiltRequest.shipments[1]
        IN  /\ OneShipmentOneItem
            /\ \A f \in ShipmentUnmapped : shipment[f] = None
            /\ \A f \in FromUnmapped : shipment.from_[f] = None
            /\ \A f \in ToUnmapped : shipment.to[f] = None
            /\ \A f \in ItemUnmapped : shipment.items[1][f] = None

\* C7 amended: one shipment holding one item, and every field without a
\* counterpart in the payload is None except the item's authority_to_leave,
\* fixed to False, and allow_partial_delivery, fixed to True.
C7_UnmappedAbsentOrFixed ==
    Accepted =>
        LET shipment == BuiltRequest.shipments[1]
        IN  /\ OneShipmentOneItem
            /\ \A f \in ShipmentUnmapped : shipment[f] = None
            /\ \A f \in FromUnmapped : shipment.from_[f] = None
            /\ \A f \in ToUnmapped : shipment.to[f] = None
            /\ \A f \in ItemUnmapped \ ItemFixed : shipment.items[1][f] = None
            /\ shipment.items[1].authority_to_leave = Some(FALSE)
            /\ shipment.items[1].allow_partial_delivery = Some(TRUE)

C7_Witness ==
    /\ Accepted
    /\ ratePayload[1].shipper.country_code = Some("AU")
    /\ BuiltRequest.shipments[1].from_.name = Some("Jane")
    /\ BuiltRequest.shipments[1].items[1].packaging_type = Some("CTN")

\* C8: email_tracking_enabled is true iff the shipper email is present, in the
\* sense the origin check gives "present" (neither None nor empty).
C8_EmailTrackingIffPresent ==
    Accepted =>
        BuiltRequest.shipments[1].email_tracking_enabled
            = Some(Truthy(ratePayload[1].shipper.email))

\* C9: base_charge is total_cost_ex_gst, duties_and_taxes is total_gst,
\* total_charge is total_cost, discount is discount, currency is "AUD"; a
\* shipment without a shipment_summary gives no extra charges and absent
\* charge values.
C9_ChargesFromSummary ==
    quote # None =>
        /\ quote[1].currency = "AUD"
        /\ IF rate[1].shipment_summary = None
           THEN /\ quote[1].extra_charges = << >>
                /\ quote[1].base_charge = None
                /\ quote[1].duties_and_taxes = None
                /\ quote[1].total_charge = None
                /\ quote[1].discount = None
           ELSE LET summary == rate[1].shipment_summary[1]
                IN  /\ quote[1].base_charge = summary.total_cost_ex_gst
                    /\ quote[1].duties_and_taxes = summary.total_gst
                    /\ quote[1].total_charge = summary.total_cost
                    /\ quote[1].discount = summary.discount

C9_Witness ==
    /\ quote # None
    /\ rate[1].shipment_summary = None
    /\ quote[1].extra_charges = << >>

\* The envelope with every namespace prefix cleared: its request content.
Content(env) ==
    [ env EXCEPT !.ns_prefix_ = None,
                 !.Header.ns_prefix_ = None,
                 !.Body.ns_prefix_ = None,
                 !.Header.anytypeobjs_[1].ns_prefix_ = None,
                 !.Body.anytypeobjs_[1].ns_prefix_ = None ]

\* C10: after any number of serializations the envelope, its Body and its
\* Header carry prefix "soap" and the first object of Body and of Header
\* carry "v1"; the request content is as built; every serialization of the
\* same Serializable gives the same result.
C10_SerializerPrefixes ==
    exported # << >> =>
        LET env == envelope[1]
        IN  /\ env.ns_prefix_ = Some("soap")
            /\ env.Body.ns_prefix_ = Some("soap")
            /\ env.Header.ns_prefix_ = Some("soap")
            /\ env.Body.anytypeobjs_[1].ns_prefix_ = Some("v1")
            /\ env.Header.anytypeobjs_[1].ns_prefix_ = Some("v1")
            /\ Content(env) =
                   Content(get_shipping_documents_request(
                               docArgs.pin, docArgs.payload, docArgs.settings, None))
            /\ \A i, j \in 1..Len(exported) : exported[i] = exported[j]

C10_Witness ==
    /\ Len(exported) >= 2
    /\ exported[1] = exported[2]
    /\ envelope[1].Header.ns_prefix_ = Some("soap")

====
